---- MODULE Spec2Model ----
(***************************************************************************)
(* Model of the SkillReal repository:                                      *)
(*   ImageComparison/ImageComp.py : find_differences, analyze_changes      *)
(*   SqaureOverlap/Overlap.py     : squares_overlap, generate_and_test_rois*)
(* Three specifications share the variables: SpecDiff drives               *)
(* find_differences, SpecCC drives analyze_changes, SpecROI drives         *)
(* generate_and_test_rois.                                                 *)
(***************************************************************************)
EXTENDS Integers, Sequences, FiniteSets, TLC

VARIABLES
    img1, img2,          \* the two images handed to find_differences
    call, prev_call,     \* outcome of the latest / the previous find_differences call
    thresholded_diff,    \* the raster handed to analyze_changes
    cc,                  \* locals and outcome of the latest analyze_changes call
    N, rois,             \* generate_and_test_rois: requested count, generated squares
    i, j,                \* its two loop indices
    overlapping_rois,    \* its result set
    pc                   \* its position

diffVars == <<img1, img2, call, prev_call>>
ccVars == <<thresholded_diff, cc>>
roiVars == <<N, rois, i, j, overlapping_rois, pc>>
vars == <<img1, img2, call, prev_call, thresholded_diff, cc, N, rois, i, j, overlapping_rois, pc>>

(***************************************************************************)
(* Bounds of the model.                                                    *)
(***************************************************************************)
\* find_differences is explored on every image of at most MaxCells cells
MaxCells == 2

\* largest value of an 8-bit grayscale sample (cv2.IMREAD_GRAYSCALE)
PixelMax == 255

\* sample values the cells of the explored images take
PixVals == {0, 1, PixelMax}

\* thresholds handed to find_differences
Thresholds == {-1, 0, 1, PixelMax - 1, PixelMax, PixelMax + 1}

Cells(h, w) == (0 .. h - 1) \X (0 .. w - 1)

ImagesOfShape(h, w, vals) == {[shape |-> <<h, w>>, px |-> f] : f \in [Cells(h, w) -> vals]}

Shapes(n) == {s \in (1 .. n) \X (1 .. n) : s[1] * s[2] <= n}

Images(n, vals) == UNION {ImagesOfShape(s[1], s[2], vals) : s \in Shapes(n)}

CellsOf(img) == Cells(img.shape[1], img.shape[2])

(***************************************************************************)
(* find_differences (ImageComp.py 10-42)                                   *)
(***************************************************************************)
\* img1 - img2 on two 8-bit samples, which wraps around
absdiff_wrapping(x, y) == (x - y) % (PixelMax + 1)

\* cv2.absdiff on two 8-bit samples
absdiff(x, y) == IF x >= y THEN x - y ELSE y - x

\* diff >= threshold
significant_inclusive(d, t) == d >= t

\* significant_diff_mask = diff > threshold
significant_diff_mask(d, t) == d > t

\* value of a local that was never assigned
Unset == [shape |-> <<0, 0>>, px |-> << >>]

NoCall == [kind |-> "none", t |-> 0, diff |-> Unset, raster |-> Unset]

\* a variant that reconciles mismatched shapes by cropping to the common region
find_differences_cropping(a, b, t) ==
    LET h == IF a.shape[1] < b.shape[1] THEN a.shape[1] ELSE b.shape[1]
        w == IF a.shape[2] < b.shape[2] THEN a.shape[2] ELSE b.shape[2]
        diff == [shape |-> <<h, w>>,
                 px |-> [p \in Cells(h, w) |-> absdiff(a.px[p], b.px[p])]]
    IN  [kind |-> "raster", t |-> t, diff |-> diff,
         raster |-> [shape |-> <<h, w>>,
                     px |-> [p \in Cells(h, w) |->
                                IF significant_diff_mask(diff.px[p], t) THEN diff.px[p] ELSE 0]]]

find_differences(a, b, t) ==
    IF a.shape # b.shape
    THEN [kind |-> "ValueError", t |-> t, diff |-> Unset, raster |-> Unset]
    ELSE LET diff == [shape |-> a.shape,
                      px |-> [p \in CellsOf(a) |-> absdiff(a.px[p], b.px[p])]]
         IN  [kind |-> "raster", t |-> t, diff |-> diff,
              raster |-> [shape |-> a.shape,
                          px |-> [p \in CellsOf(a) |->
                                     IF significant_diff_mask(diff.px[p], t)
                                     THEN diff.px[p] ELSE 0]]]

IdleCC == /\ thresholded_diff = [shape |-> <<1, 1>>, px |-> [p \in Cells(1, 1) |-> 0]]
          /\ cc = [kind |-> "idle"]

IdleROI == /\ N = 0
           /\ rois = << >>
           /\ i = 0
           /\ j = 0
           /\ overlapping_rois = {}
           /\ pc = "idle"

IdleDiff == /\ img1 = [shape |-> <<1, 1>>, px |-> [p \in Cells(1, 1) |-> 0]]
            /\ img2 = [shape |-> <<1, 1>>, px |-> [p \in Cells(1, 1) |-> 0]]
            /\ call = NoCall
            /\ prev_call = NoCall

InitDiff == /\ img1 \in Images(MaxCells, PixVals)
            /\ img2 \in Images(MaxCells, PixVals)
            /\ call = NoCall
            /\ prev_call = NoCall
            /\ IdleCC
            /\ IdleROI

\* one call diff_image = find_differences(img1, img2, threshold); the latest two
\* calls on the pair of images are kept, and no more than two are explored
FindDifferences(t) ==
    /\ prev_call.kind = "none"
    /\ call' = find_differences(img1, img2, t)
    /\ prev_call' = call
    /\ UNCHANGED <<img1, img2, ccVars, roiVars>>

NextDiff == \E t \in Thresholds : FindDifferences(t)

SpecDiff == InitDiff /\ [][NextDiff]_vars

(***************************************************************************)
(* Properties of find_differences, checked under SpecDiff                  *)
(***************************************************************************)
Abs(x) == IF x < 0 THEN -x ELSE x

Called == call.kind # "none"

AllZero(r) == \A p \in CellsOf(r) : r.px[p] = 0

\* C1: for same-shaped images and a threshold t >= 0 the call returns a raster of
\* the images' shape whose cell p holds d = |img1[p] - img2[p]| when d > t and 0
\* when d <= t.
C1_ThresholdedDifference ==
    (Called /\ img1.shape = img2.shape /\ call.t >= 0) =>
        /\ call.kind = "raster"
        /\ call.raster.shape = img1.shape
        /\ \A p \in CellsOf(img1) :
              LET d == Abs(img1.px[p] - img2.px[p])
              IN  call.raster.px[p] = IF d > call.t THEN d ELSE 0

\* a call at threshold 1 in which one cell differs by exactly 1 (suppressed) and
\* another differs by more (kept)
C1_Witness ==
    /\ call.kind = "raster"
    /\ call.t = 1
    /\ \E p, q \in CellsOf(img1) :
          /\ Abs(img1.px[p] - img2.px[p]) = 1
          /\ call.raster.px[p] = 0
          /\ img2.px[q] - img1.px[q] = PixelMax
          /\ call.raster.px[q] = PixelMax

\* C2: when the images differ in width or in height the call ends in ValueError,
\* before any difference is computed, and returns no raster.
C2_DimensionGuard ==
    (Called /\ img1.shape # img2.shape) =>
        /\ call.kind = "ValueError"
        /\ call.diff = Unset
        /\ call.raster = Unset

\* a call on images of equal height and different width
C2_Witness ==
    /\ call.kind = "ValueError"
    /\ img1.shape = <<1, 1>>
    /\ img2.shape = <<1, 2>>

\* C8: a call with a negative threshold fails with an error and returns no raster.
C8_NegativeThresholdRejected ==
    (Called /\ call.t < 0) => call.kind \notin {"raster"}

\* C9: for thresholds 0 <= t1 < t2 on the same images every cell that is non-zero
\* at t2 holds the same value at t1; a threshold at or above 255 gives an all-zero
\* raster.
C9_ThresholdMonotone ==
    /\ (call.kind = "raster" /\ call.t >= PixelMax) => AllZero(call.raster)
    /\ (call.kind = "raster" /\ prev_call.kind = "raster") =>
          LET lo == IF prev_call.t < call.t THEN prev_call ELSE call
              hi == IF prev_call.t < call.t THEN call ELSE prev_call
          IN  (0 <= lo.t /\ lo.t < hi.t) =>
                 \A p \in CellsOf(hi.raster) :
                    hi.raster.px[p] # 0 => lo.raster.px[p] = hi.raster.px[p]

\* thresholds 0 then 1: one cell is kept by both, another only by the lower one
C9_Witness ==
    /\ prev_call.kind = "raster" /\ prev_call.t = 0
    /\ call.kind = "raster" /\ call.t = 1
    /\ \E p, q \in CellsOf(img1) :
          /\ prev_call.raster.px[p] = 1 /\ call.raster.px[p] = 0
          /\ prev_call.raster.px[q] = PixelMax /\ call.raster.px[q] = PixelMax

(***************************************************************************)
(* squares_overlap, generate_and_test_rois (Overlap.py 14-83)              *)
(***************************************************************************)
\* number of ROIs requested: N ranges over 0 .. MaxN
MaxN == 3

\* generate_and_test_rois parameters image_size, min_size, max_size
image_size == <<4, 3>>

min_size == 1

max_size == 2

\* squares are tuples (x1, y1, x2, y2)
squares_overlap(square1, square2) ==
    LET x1 == square1[1]  y1 == square1[2]  x2 == square1[3]  y2 == square1[4]
        x3 == square2[1]  y3 == square2[2]  x4 == square2[3]  y4 == square2[4]
    IN  IF x2 < x3 \/ x4 < x1
        THEN FALSE
        ELSE IF y2 < y3 \/ y4 < y1
             THEN FALSE
             ELSE TRUE

\* overlapping_rois.add(i) only
add_first_only(S, a, b) == S \cup {a}

\* overlapping_rois.add(i); overlapping_rois.add(j)
add_pair(S, a, b) == S \cup {a, b}

InitROI == /\ N \in 0 .. MaxN
           /\ rois = << >>
           /\ i = 0
           /\ j = 0
           /\ overlapping_rois = {}
           /\ pc = "generate"
           /\ IdleDiff
           /\ IdleCC

\* one iteration of "for _ in range(N)": three random.randint draws and an append
GenerateRoi ==
    /\ pc = "generate"
    /\ Len(rois) < N
    /\ \E size \in min_size .. max_size :
          \E x \in 0 .. image_size[1] - size :
             \E y \in 0 .. image_size[2] - size :
                rois' = Append(rois, <<x, y, x + size, y + size>>)
    /\ UNCHANGED <<N, i, j, overlapping_rois, pc, diffVars, ccVars>>

\* overlapping_rois = set(); the outer loop starts at i = 0, the inner at j = i + 1
StartTest ==
    /\ pc = "generate"
    /\ Len(rois) = N
    /\ overlapping_rois' = {}
    /\ i' = 0
    /\ j' = 1
    /\ pc' = "test"
    /\ UNCHANGED <<N, rois, diffVars, ccVars>>

\* one iteration of "for j in range(i+1, N)"; rois is 0-indexed in the code
TestPair ==
    /\ pc = "test"
    /\ i < N
    /\ j < N
    /\ overlapping_rois' = IF squares_overlap(rois[i + 1], rois[j + 1])
                           THEN add_pair(overlapping_rois, i, j)
                           ELSE overlapping_rois
    /\ j' = j + 1
    /\ UNCHANGED <<N, rois, i, pc, diffVars, ccVars>>

\* the inner loop is exhausted: next i
NextI ==
    /\ pc = "test"
    /\ i < N
    /\ j >= N
    /\ i' = i + 1
    /\ j' = i + 2
    /\ UNCHANGED <<N, rois, overlapping_rois, pc, diffVars, ccVars>>

\* return rois, overlapping_rois
ReturnRois ==
    /\ pc = "test"
    /\ i >= N
    /\ pc' = "done"
    /\ UNCHANGED <<N, rois, i, j, overlapping_rois, diffVars, ccVars>>

NextROI == GenerateRoi \/ StartTest \/ TestPair \/ NextI \/ ReturnRois

SpecROI == InitROI /\ [][NextROI]_vars

(***************************************************************************)
(* Properties of generate_and_test_rois, checked under SpecROI             *)
(***************************************************************************)
Max2(a, b) == IF a > b THEN a ELSE b

Min2(a, b) == IF a < b THEN a ELSE b

\* the closed rectangles s and t have a point in common
SharePoint(s, t) ==
    /\ Max2(s[1], t[1]) <= Min2(s[3], t[3])
    /\ Max2(s[2], t[2]) <= Min2(s[4], t[4])

\* C10: on return, index a is in overlapping_rois iff some other index b has
\* squares_overlap(rois[a], rois[b]); squares_overlap is symmetric and counts
\* squares that share only an edge or a corner as overlapping.
C10_OverlapSetExact ==
    pc = "done" =>
        /\ \A a \in 0 .. N - 1 :
              a \in overlapping_rois <=>
                 \E b \in 0 .. N - 1 : b # a /\ squares_overlap(rois[a + 1], rois[b + 1])
        /\ overlapping_rois \subseteq 0 .. N - 1
        /\ \A a, b \in 1 .. N :
              /\ squares_overlap(rois[a], rois[b]) = squares_overlap(rois[b], rois[a])
              /\ squares_overlap(rois[a], rois[b]) = SharePoint(rois[a], rois[b])

\* three squares: the first and the last touch at one corner only, the middle one
\* is apart from both
C10_Witness ==
    /\ pc = "done"
    /\ N = 3
    /\ rois[1][3] = rois[3][1] /\ rois[1][4] = rois[3][2]
    /\ overlapping_rois = {0, 2}

(***************************************************************************)
(* analyze_changes (ImageComp.py 44-70)                                    *)
(***************************************************************************)
\* analyze_changes is explored on every raster of at most MaxSmall cells ...
MaxSmall == 6

\* ... on GridH x GridW rasters whose first k cells in raster order are non-zero,
\* and on rasters of GridH rows made of vertical bands one blank column apart ...
GridH == 8

GridW == 8

\* ... and on (n+1) x (n+1) rasters holding a solid n x n block in a corner
MaxBlock == 3

\* at most MaxBands bands, each 1, GridW - 1 or GridW columns wide and starting in
\* row 0 or row 1
MaxBands == 3

BandCounts == 1 .. MaxBands

\* min_area = 5
min_area_5 == 50 \div 10

\* min_area = 50
min_area == 50

\* connectivity=4
connectivity_4 == 8 \div 2

\* cv2.connectedComponentsWithStats(thresholded_diff, connectivity=8)
connectivity == 8

\* enumerate(significant_changes)
enumerate_start_default == 1 - 1

\* enumerate(significant_changes, 1)
enumerate_start == 1

\* the labeling algorithm behind cv2.connectedComponentsWithStats: "SAUF" scans
\* pixel by pixel (OpenCV 3.0/3.1, CCL_WU), "BBDT" scans 2x2 blocks (the default
\* for 8-connectivity since OpenCV 3.2: CCL_GRANA, later CCL_SPAGHETTI)
CclTypes == {"SAUF", "BBDT"}

\* explicit min_area arguments a caller may try to pass; << >> is "none passed"
MinAreaArgs == {<< >>, <<5>>, <<10>>}

PrefixRaster(h, w, k) ==
    [shape |-> <<h, w>>,
     px |-> [p \in Cells(h, w) |-> IF p[1] * w + p[2] < k THEN PixelMax ELSE 0]]

RECURSIVE BandStart(_, _)
BandStart(bands, k) == IF k = 1 THEN 0 ELSE BandStart(bands, k - 1) + bands[k - 1][1] + 1

BandRaster(h, bands) ==
    LET n == Len(bands)
        w == BandStart(bands, n) + bands[n][1]
    IN  [shape |-> <<h, w>>,
         px |-> [p \in Cells(h, w) |->
                    IF \E k \in 1 .. n : /\ p[2] >= BandStart(bands, k)
                                         /\ p[2] < BandStart(bands, k) + bands[k][1]
                                         /\ p[1] >= bands[k][2]
                    THEN PixelMax ELSE 0]]

BandChoices == {1, GridW - 1, GridW} \X {0, 1}

BandRasters == UNION {{BandRaster(GridH, b) : b \in [1 .. n -> BandChoices]} : n \in BandCounts}

Corners == {0, 1} \X {0, 1}

\* corner[1] = 1: the block sits in the bottom rows; corner[2] = 1: in the right columns
CornerBlock(n, corner) ==
    [shape |-> <<n + 1, n + 1>>,
     px |-> [p \in Cells(n + 1, n + 1) |->
                IF /\ p[1] >= corner[1] /\ p[1] < corner[1] + n
                   /\ p[2] >= corner[2] /\ p[2] < corner[2] + n
                THEN PixelMax ELSE 0]]

Rasters ==
    Images(MaxSmall, PixVals)
    \cup {PrefixRaster(GridH, GridW, k) : k \in 0 .. GridH * GridW}
    \cup BandRasters
    \cup {CornerBlock(n, c) : n \in 1 .. MaxBlock, c \in Corners}

\* the neighbours of cell p under the given connectivity
Neighbours(p, conn) ==
    IF conn = 4
    THEN {<<p[1] - 1, p[2]>>, <<p[1] + 1, p[2]>>, <<p[1], p[2] - 1>>, <<p[1], p[2] + 1>>}
    ELSE {<<p[1] + dr, p[2] + dc>> : dr \in {-1, 0, 1}, dc \in {-1, 0, 1}} \ {p}

\* all cells of rem joined to the frontier
RECURSIVE Flood(_, _, _)
Flood(seen, frontier, rem) ==
    LET new == {q \in UNION {Neighbours(c, connectivity) : c \in frontier} :
                   q \in rem /\ q \notin seen}
    IN  IF new = {} THEN seen ELSE Flood(seen \cup new, new, rem)

\* the cells the scan visits at position k: one pixel (SAUF) or one 2x2 block (BBDT)
ScanCells(k, w, ccltype) ==
    IF ccltype = "SAUF"
    THEN {<<k \div w, k % w>>}
    ELSE LET bw == (w + 1) \div 2
             r == 2 * (k \div bw)
             c == 2 * (k % bw)
         IN  {<<r, c>>, <<r, c + 1>>, <<r + 1, c>>, <<r + 1, c + 1>>}

\* the components in the order the scan meets them; a component gets its label
\* at the first scan position that holds one of its cells
RECURSIVE LabelComponents(_, _, _, _, _)
LabelComponents(k, rem, acc, w, ccltype) ==
    IF rem = {}
    THEN acc
    ELSE LET here == ScanCells(k, w, ccltype) \cap rem
         IN  IF here = {}
             THEN LabelComponents(k + 1, rem, acc, w, ccltype)
             ELSE LET comp == Flood(here, here, rem)
                  IN  LabelComponents(k + 1, rem \ comp, Append(acc, comp), w, ccltype)

MinOf(S) == CHOOSE x \in S : \A y \in S : x <= y

MaxOf(S) == CHOOSE x \in S : \A y \in S : x >= y

\* one row of stats: (left, top, width, height, area); the row of a label that
\* has no cell is never read by analyze_changes and is modelled as all zero
StatRow(cells) ==
    IF cells = {}
    THEN <<0, 0, 0, 0, 0>>
    ELSE LET rows == {p[1] : p \in cells}
             cols == {p[2] : p \in cells}
         IN  <<MinOf(cols), MinOf(rows), MaxOf(cols) - MinOf(cols) + 1,
               MaxOf(rows) - MinOf(rows) + 1, Cardinality(cells)>>

\* num_labels, labels, stats (label 0 is the background)
connectedComponentsWithStats(image, ccltype) ==
    LET all == CellsOf(image)
        fg == {p \in all : image.px[p] # 0}
        comps == LabelComponents(0, fg, << >>, image.shape[2], ccltype)
    IN  [num_labels |-> Len(comps) + 1,
         labels |-> [p \in all |-> IF p \in fg
                                   THEN CHOOSE k \in 1 .. Len(comps) : p \in comps[k]
                                   ELSE 0],
         stats |-> <<StatRow(all \ fg)>> \o [k \in 1 .. Len(comps) |-> StatRow(comps[k])]]

\* stat[4] >= min_area
is_significant_inclusive(stat) == stat[5] >= min_area

\* stat[4] > min_area (index 4 of the code is index 5 here)
is_significant(stat) == stat[5] > min_area

\* stats, background row included
candidates_all(stats) == stats

\* stats[1:]
candidates(stats) == Tail(stats)

NoCC == [kind |-> "none", arg |-> << >>, ccltype |-> "SAUF", num_labels |-> 0,
         labels |-> << >>, stats |-> << >>, num_changes |-> 0, changes_info |-> << >>]

analyze_changes(image, ccltype) ==
    LET lib == connectedComponentsWithStats(image, ccltype)
        significant_changes == SelectSeq(candidates(lib.stats), is_significant)
    IN  [kind |-> "returned", arg |-> << >>, ccltype |-> ccltype,
         num_labels |-> lib.num_labels, labels |-> lib.labels, stats |-> lib.stats,
         num_changes |-> Len(significant_changes),
         changes_info |-> [k \in 1 .. Len(significant_changes) |->
                              [change_id |-> enumerate_start + k - 1,
                               pixels |-> significant_changes[k][5]]]]

InitCC == /\ thresholded_diff \in Rasters
          /\ cc = NoCC
          /\ IdleDiff
          /\ IdleROI

\* num_changes, changes_info = analyze_changes(diff_image), with the labeling
\* algorithm the installed OpenCV uses
AnalyzeChanges(ccltype) ==
    /\ cc.kind = "none"
    /\ cc' = analyze_changes(thresholded_diff, ccltype)
    /\ UNCHANGED <<thresholded_diff, diffVars, roiVars>>

\* analyze_changes(diff_image, min_area=m): the function takes one parameter
AnalyzeChangesWithMinArea(m) ==
    /\ cc.kind = "none"
    /\ cc' = [NoCC EXCEPT !.kind = "TypeError", !.arg = <<m>>]
    /\ UNCHANGED <<thresholded_diff, diffVars, roiVars>>

NextCC == \/ \E ccltype \in CclTypes : AnalyzeChanges(ccltype)
          \/ \E a \in MinAreaArgs \ {<< >>} : AnalyzeChangesWithMinArea(a[1])

SpecCC == InitCC /\ [][NextCC]_vars

(***************************************************************************)
(* Properties of analyze_changes, checked under SpecCC                     *)
(***************************************************************************)
Returned == cc.kind = "returned"

Foreground == {p \in CellsOf(thresholded_diff) : thresholded_diff.px[p] # 0}

\* the cells that carry label l
ClassOf(l) == {p \in CellsOf(thresholded_diff) : cc.labels[p] = l}

\* horizontally, vertically or diagonally adjacent
Adjacent8(p, q) == p # q /\ Abs(p[1] - q[1]) <= 1 /\ Abs(p[2] - q[2]) <= 1

\* the cells of region that a path of pairwise adjacent cells of region joins to S
\* (F: the cells of S reached last)
RECURSIVE JoinedTo(_, _, _)
JoinedTo(S, F, region) ==
    LET T == {q \in region \ S : \E p \in F : Adjacent8(p, q)}
    IN  IF T = {} THEN S ELSE JoinedTo(S \cup T, T, region)

\* the labels of the components larger than the floor
Kept == {l \in 1 .. cc.num_labels - 1 : Cardinality(ClassOf(l)) > min_area}

\* the k-th smallest element of S
Kth(S, k) == CHOOSE l \in S : Cardinality({m \in S : m < l}) = k - 1

\* position of the first cell of label l in a raster scan of the pixels
PixelScanKey(l) == MinOf({p[1] * thresholded_diff.shape[2] + p[2] : p \in ClassOf(l)})

\* position of the first 2x2 block holding a cell of label l in a raster scan of the blocks
BlockScanKey(l) ==
    MinOf({(p[1] \div 2) * thresholded_diff.shape[2] + (p[2] \div 2) : p \in ClassOf(l)})

RECURSIVE SumPixels(_)
SumPixels(info) == IF info = << >> THEN 0 ELSE Head(info).pixels + SumPixels(Tail(info))

C4_EightConnectedComponents ==
    Returned =>
        /\ \A p \in CellsOf(thresholded_diff) :
              /\ cc.labels[p] \in 0 .. cc.num_labels - 1
              /\ cc.labels[p] = 0 <=> p \notin Foreground
        /\ \A p \in Foreground :
              \A dr, dc \in {-1, 0, 1} :
                 LET q == <<p[1] + dr, p[2] + dc>>
                 IN  (q \in Foreground /\ Adjacent8(p, q)) => cc.labels[q] = cc.labels[p]
        /\ \A l \in 1 .. cc.num_labels - 1 :
              /\ ClassOf(l) # {}
              /\ LET class == ClassOf(l)
                     p == CHOOSE c \in class : TRUE
                 IN  JoinedTo({p}, {p}, class) = class
              /\ cc.stats[l + 1][5] = Cardinality(ClassOf(l))
        /\ Foreground = CellsOf(thresholded_diff) =>
              /\ cc.num_labels = 2
              /\ cc.stats[2][5] = thresholded_diff.shape[1] * thresholded_diff.shape[2]

\* the only two non-zero cells touch at a corner only and carry the same label
C4_Witness ==
    /\ Returned
    /\ cc.num_labels = 2
    /\ \E p, q \in Foreground :
          /\ q = <<p[1] + 1, p[2] + 1>>
          /\ Foreground = {p, q}
          /\ cc.labels[p] = cc.labels[q]
          /\ cc.stats[2][5] = 2

\* the change ids are 1 .. num_changes, given to the kept components in
\* ascending order of their labels
IdsFollowLabels ==
    /\ Len(cc.changes_info) = cc.num_changes
    /\ cc.num_changes = Cardinality(Kept)
    /\ \A k \in 1 .. cc.num_changes :
          /\ cc.changes_info[k].change_id = k
          /\ cc.changes_info[k].pixels = Cardinality(ClassOf(Kth(Kept, k)))

\* C5 as stated: the change ids are 1 .. num_changes without gaps, given to the
\* kept components only, in the order a raster scan of the pixels (rows top to
\* bottom, columns left to right) first meets them.
C5_IdsInPixelScanOrder ==
    Returned =>
        /\ IdsFollowLabels
        /\ \A k, m \in 1 .. cc.num_changes :
              k < m => PixelScanKey(Kth(Kept, k)) < PixelScanKey(Kth(Kept, m))

\* C5, amended: the change ids are 1 .. num_changes without gaps, given to the kept
\* components only, in ascending order of their labels; the labels follow a raster
\* scan of the pixels under a pixel-scanning labeling and a raster scan of the 2x2
\* blocks under a block-scanning one.
C5_IdsInLabelOrder ==
    Returned =>
        /\ IdsFollowLabels
        /\ \A l, m \in 1 .. cc.num_labels - 1 :
              l < m => IF cc.ccltype = "SAUF"
                       THEN PixelScanKey(l) < PixelScanKey(m)
                       ELSE BlockScanKey(l) < BlockScanKey(m)

\* two kept components with a discarded one labelled between them, and the pixel
\* scan meets the second kept component before the first
C5_Witness ==
    /\ Returned
    /\ cc.num_labels = 4
    /\ Kept = {1, 3}
    /\ cc.changes_info[1].pixels # cc.changes_info[2].pixels
    /\ PixelScanKey(3) < PixelScanKey(1)

\* C6: num_changes is the length of changes_info, the pixels of changes_info sum
\* to at most the number of non-zero cells, and an all-zero raster gives
\* num_changes = 0 and an empty list.
C6_CountConsistency ==
    Returned =>
        /\ cc.num_changes = Len(cc.changes_info)
        /\ SumPixels(cc.changes_info) <= Cardinality(Foreground)
        /\ Foreground = {} => (cc.num_changes = 0 /\ cc.changes_info = << >>)

\* two components are reported and a third, smaller one is left out of the sum
C6_Witness ==
    /\ Returned
    /\ cc.num_changes = 2
    /\ SumPixels(cc.changes_info) > 2 * min_area
    /\ SumPixels(cc.changes_info) < Cardinality(Foreground)

IsCornerBlock(n) == thresholded_diff \in {CornerBlock(n, c) : c \in Corners}

\* C7 as stated: min_area is a parameter of the call; on the 4x4 raster holding a
\* solid 3x3 block, min_area = 5 returns one change of 9 pixels and min_area = 10
\* returns none.
C7_MinAreaParameter ==
    (IsCornerBlock(3) /\ cc.kind # "none") =>
        /\ cc.arg = <<5>> =>
              /\ cc.kind = "returned"
              /\ cc.num_changes = 1
              /\ cc.changes_info = <<[change_id |-> 1, pixels |-> 9]>>
        /\ cc.arg = <<10>> => (cc.kind = "returned" /\ cc.num_changes = 0)

\* C7, amended: analyze_changes takes the raster alone and applies the fixed floor
\* of 50: a call that passes min_area fails with TypeError, and on the 4x4 raster
\* holding a solid 3x3 block the call returns num_changes = 0 and an empty list.
C7_FixedFloor ==
    /\ (cc.kind # "none" /\ cc.arg # << >>) => cc.kind = "TypeError"
    /\ (IsCornerBlock(3) /\ Returned) => (cc.num_changes = 0 /\ cc.changes_info = << >>)

\* the 4x4 raster with the 3x3 block was analysed: nine non-zero cells, nothing reported
C7_Witness ==
    /\ IsCornerBlock(3)
    /\ Returned
    /\ Cardinality(Foreground) = 9
    /\ cc.num_labels = 2
    /\ cc.num_changes = 0

====
